---- MODULE Spec2Model ----
(***************************************************************************)
(* jsonescape (src/main.go): the JSON string escape/unescape codec and the *)
(* command-line driver around it.                                          *)
(*                                                                         *)
(* A Go string is a sequence of bytes (0..255).  Cursors are 0-based as in *)
(* the source; At and Slice translate to TLA+'s 1-based sequences.         *)
(***************************************************************************)
EXTENDS Integers, Sequences, FiniteSets, TLC

VARIABLES
    pc,         \* where the caller of the codec stands: "escape", "scan", "done",
                \* and "idle" in a run of the command
    call,       \* what the caller does: "roundtrip" or "unescape"
    chars,      \* the scalar values of the text handed to jsonEscape
    text,       \* the text handed to jsonEscape, UTF-8 encoded
    asciiOnly,  \* jsonEscape's asciiOnly argument
    htmlSafe,   \* jsonEscape's htmlSafe argument
    escaped,    \* jsonEscape's result
    s,          \* jsonUnescape's argument
    i,          \* jsonUnescape's cursor
    buf,        \* jsonUnescape's output buffer
    err,        \* jsonUnescape's error result, NoErr while there is none
    result,     \* jsonUnescape's string result
    prev,       \* cursor and buffer at the head of the last loop iteration,
                \* and the number of iterations entered so far
    rpc,        \* where run stands: "parse", "meta", "input", "exit", and "idle"
                \* when the codec is called directly
    argv,       \* run's args
    config,     \* the Config parseArgs returned
    argIdx,     \* positional arguments processed so far
    fileIdx,    \* input files processed so far
    hasInput,   \* run's hasInput
    stdin,      \* standard input: what isTerminal answers and what is read
    written,    \* the records written to p.Output, in order
    count,      \* p.count
    served,     \* what run printed besides records: help, version, completion
    stderr,     \* the errors printed to stderr, in order
    exitCode    \* run's return value, -1 until it returns

codecVars ==
    <<pc, call, chars, text, asciiOnly, htmlSafe, escaped, s, i, buf, err, result, prev>>

runVars ==
    <<rpc, argv, config, argIdx, fileIdx, hasInput, stdin, written, count, served,
      stderr, exitCode>>

vars == <<codecVars, runVars>>

(***************************************************************************)
(* Bounds of the model.                                                    *)
(***************************************************************************)
MaxLen == 2        \* characters in a text handed to jsonEscape
MaxTokens == 2     \* tokens in a string handed to jsonUnescape directly
MaxArgs == 3       \* arguments on a command line

(***************************************************************************)
(* Bytes and strings.                                                      *)
(***************************************************************************)
\* The printable-ASCII table names the backslash BSL and the backquote BQT.
BSL == "BSL"
BQT == "BQT"

Printable ==
    <<" ", "!", "\"", "#", "$", "%", "&", "'", "(", ")", "*", "+", ",", "-", ".", "/",
      "0", "1", "2", "3", "4", "5", "6", "7", "8", "9", ":", ";", "<", "=", ">", "?",
      "@", "A", "B", "C", "D", "E", "F", "G", "H", "I", "J", "K", "L", "M", "N", "O",
      "P", "Q", "R", "S", "T", "U", "V", "W", "X", "Y", "Z", "[", BSL, "]", "^", "_",
      BQT, "a", "b", "c", "d", "e", "f", "g", "h", "i", "j", "k", "l", "m", "n", "o",
      "p", "q", "r", "s", "t", "u", "v", "w", "x", "y", "z", "{", "|", "}", "~">>

\* The byte of each printable ASCII character: ' ' is 32, '~' is 126.
Ascii == [c \in {Printable[k] : k \in DOMAIN Printable} |->
            31 + (CHOOSE k \in DOMAIN Printable : Printable[k] = c)]

\* A Go string literal of printable ASCII characters, as bytes.
Str(cs) == [k \in DOMAIN cs |-> Ascii[cs[k]]]

\* s[k] of the source.
At(str, k) == str[k + 1]

\* s[lo:hi] of the source.
Slice(str, lo, hi) == SubSeq(str, lo + 1, hi)

RECURSIVE Concat(_)
Concat(parts) ==
    IF parts = <<>> THEN <<>> ELSE Head(parts) \o Concat(Tail(parts))

RECURSIVE SeqsUpTo(_, _)
SeqsUpTo(S, n) ==
    IF n = 0 THEN {<<>>}
    ELSE LET shorter == SeqsUpTo(S, n - 1)
         IN  shorter \cup {Append(q, x) : q \in shorter, x \in S}

(***************************************************************************)
(* unicode/utf8 as the source uses it: buf.WriteRune and `range s`.        *)
(***************************************************************************)
IsSurrogate(r) == r >= \HD800 /\ r <= \HDFFF

\* buf.WriteRune(r): the UTF-8 encoding of r, and that of U+FFFD when r is
\* a surrogate value or out of range.
WriteRune(r) ==
    IF r < 0 \/ r > \H10FFFF \/ IsSurrogate(r)
    THEN <<\HEF, \HBF, \HBD>>
    ELSE IF r < \H80 THEN <<r>>
    ELSE IF r < \H800 THEN <<\HC0 + (r \div 64), \H80 + (r % 64)>>
    ELSE IF r < \H10000
         THEN <<\HE0 + (r \div 4096), \H80 + ((r \div 64) % 64), \H80 + (r % 64)>>
    ELSE <<\HF0 + (r \div 262144), \H80 + ((r \div 4096) % 64),
           \H80 + ((r \div 64) % 64), \H80 + (r % 64)>>

IsCont(b) == b >= \H80 /\ b <= \HBF

\* One step of `for _, r := range str`: the rune that starts at byte k
\* (0-based) and its width; an invalid encoding is U+FFFD of width 1.
DecodeRune(str, k) ==
    LET n == Len(str) - k
        b0 == At(str, k)
        b1 == At(str, k + 1)
        b2 == At(str, k + 2)
        b3 == At(str, k + 3)
        bad == [r |-> \HFFFD, size |-> 1]
    IN  IF b0 < \H80 THEN [r |-> b0, size |-> 1]
        ELSE IF b0 >= \HC2 /\ b0 <= \HDF
             THEN IF n >= 2 /\ IsCont(b1)
                  THEN [r |-> (b0 - \HC0) * 64 + (b1 - \H80), size |-> 2]
                  ELSE bad
        ELSE IF b0 >= \HE0 /\ b0 <= \HEF
             THEN IF /\ n >= 3
                     /\ b1 >= (IF b0 = \HE0 THEN \HA0 ELSE \H80)
                     /\ b1 <= (IF b0 = \HED THEN \H9F ELSE \HBF)
                     /\ IsCont(b2)
                  THEN [r |-> (b0 - \HE0) * 4096 + (b1 - \H80) * 64 + (b2 - \H80),
                        size |-> 3]
                  ELSE bad
        ELSE IF b0 >= \HF0 /\ b0 <= \HF4
             THEN IF /\ n >= 4
                     /\ b1 >= (IF b0 = \HF0 THEN \H90 ELSE \H80)
                     /\ b1 <= (IF b0 = \HF4 THEN \H8F ELSE \HBF)
                     /\ IsCont(b2)
                     /\ IsCont(b3)
                  THEN [r |-> (b0 - \HF0) * 262144 + (b1 - \H80) * 4096
                                + (b2 - \H80) * 64 + (b3 - \H80),
                        size |-> 4]
                  ELSE bad
        ELSE bad

(***************************************************************************)
(* fmt's %04x.                                                             *)
(***************************************************************************)
HexDigit(d) == IF d < 10 THEN Ascii["0"] + d ELSE Ascii["a"] + (d - 10)

RECURSIVE HexDigits(_)
HexDigits(v) ==
    IF v < 16 THEN <<HexDigit(v)>>
    ELSE Append(HexDigits(v \div 16), HexDigit(v % 16))

\* %x in place of %04x.
Unpadded(digits, width) == digits

RECURSIVE ZeroPad(_, _)
ZeroPad(digits, width) ==
    IF Len(digits) >= width THEN digits
    ELSE ZeroPad(<<Ascii["0"]>> \o digits, width)

\* fmt.Fprintf(&buf, `\u%04x`, v)
UEscape(v) == Str(<<BSL, "u">>) \o ZeroPad(HexDigits(v), 4)

(***************************************************************************)
(* jsonEscape and utf16Surrogates.                                         *)
(***************************************************************************)
utf16SurrogatesNoOffset(r) ==
    <<\HD800 + ((r \div 1024) % 1024), \HDC00 + (r % 1024)>>

utf16Surrogates(r) ==
    LET x == r - \H10000
    IN  <<\HD800 + ((x \div 1024) % 1024), \HDC00 + (x % 1024)>>

IsControlBelow1F(r) == r < \H1F

\* r < 0x20: the control characters.
IsControl(r) == r < \H20

EscapeHtmlAlways(r, html, esc) == esc

\* The cases of '<', '>' and '&': the escape esc when htmlSafe is set, and
\* the character itself otherwise.
EscapeHtml(r, html, esc) == IF html THEN esc ELSE WriteRune(r)

\* The body of jsonEscape's loop: what one rune appends to the buffer.
EscapeRune(r, ascii, html) ==
    CASE r = Ascii["\""] -> Str(<<BSL, "\"">>)
      [] r = Ascii[BSL] -> Str(<<BSL, BSL>>)
      [] r = 8 -> Str(<<BSL, "b">>)
      [] r = 12 -> Str(<<BSL, "f">>)
      [] r = 10 -> Str(<<BSL, "n">>)
      [] r = 13 -> Str(<<BSL, "r">>)
      [] r = 9 -> Str(<<BSL, "t">>)
      [] r = Ascii["<"] -> EscapeHtml(r, html, Str(<<BSL, "u", "0", "0", "3", "c">>))
      [] r = Ascii[">"] -> EscapeHtml(r, html, Str(<<BSL, "u", "0", "0", "3", "e">>))
      [] r = Ascii["&"] -> EscapeHtml(r, html, Str(<<BSL, "u", "0", "0", "2", "6">>))
      [] OTHER ->
            IF IsControl(r)
            THEN UEscape(r)
            ELSE IF ascii /\ r > 127
            THEN IF r <= \HFFFF
                 THEN UEscape(r)
                 ELSE LET p == utf16Surrogates(r)
                      IN  UEscape(p[1]) \o UEscape(p[2])
            ELSE WriteRune(r)

RECURSIVE EscapeFrom(_, _, _, _)
EscapeFrom(str, k, ascii, html) ==
    IF k >= Len(str) THEN <<>>
    ELSE LET d == DecodeRune(str, k)
         IN  EscapeRune(d.r, ascii, html) \o EscapeFrom(str, k + d.size, ascii, html)

\* jsonEscape with its loop over the bytes of str instead of its runes.
jsonEscapeBytewise(str, ascii, html) ==
    Concat([k \in DOMAIN str |-> EscapeRune(str[k], ascii, html)])

jsonEscape(str, ascii, html) == EscapeFrom(str, 0, ascii, html)

(***************************************************************************)
(* jsonUnescape and parseHexRune.                                          *)
(***************************************************************************)
\* An error value: its message, the value formatted into it, and the
\* message of the error it wraps.
Error(msg, arg) == [msg |-> msg, arg |-> arg, cause |-> ""]

Wrap(msg, inner) == [msg |-> msg, arg |-> inner.arg, cause |-> inner.msg]

NoErr == Error("", <<>>)

ErrIncompleteEscape == Error("incomplete escape sequence at end of string", <<>>)

ErrIncompleteUnicodeEscape == Error("incomplete unicode escape sequence", <<>>)

\* fmt.Errorf("invalid unicode escape \\u%s: %w", hex, err)
ErrInvalidUnicodeEscape(hex) ==
    [msg |-> "invalid unicode escape", arg |-> hex, cause |-> "invalid hex character"]

\* fmt.Errorf("invalid escape sequence \\%c", s[i]): s[i] is a byte, and %c
\* prints the character whose code point is that byte's value.
ErrInvalidEscapeChar(b) == Error("invalid escape sequence", WriteRune(b))

HexValueUpToG(c) ==
    IF c >= Ascii["0"] /\ c <= Ascii["9"] THEN c - Ascii["0"]
    ELSE IF c >= Ascii["a"] /\ c <= Ascii["g"] THEN c - Ascii["a"] + 10
    ELSE IF c >= Ascii["A"] /\ c <= Ascii["G"] THEN c - Ascii["A"] + 10
    ELSE -1

\* The value of one hexadecimal digit, -1 for any other rune.
HexValue(c) ==
    IF c >= Ascii["0"] /\ c <= Ascii["9"] THEN c - Ascii["0"]
    ELSE IF c >= Ascii["a"] /\ c <= Ascii["f"] THEN c - Ascii["a"] + 10
    ELSE IF c >= Ascii["A"] /\ c <= Ascii["F"] THEN c - Ascii["A"] + 10
    ELSE -1

RECURSIVE ParseHexFrom(_, _, _)
ParseHexFrom(hex, k, r) ==
    IF k >= Len(hex) THEN [r |-> r, ok |-> TRUE]
    ELSE LET d == DecodeRune(hex, k)
         IN  IF HexValue(d.r) < 0
             THEN [r |-> 0, ok |-> FALSE]
             ELSE ParseHexFrom(hex, k + d.size, r * 16 + HexValue(d.r))

parseHexRune(hex) == ParseHexFrom(hex, 0, 0)

IsNamedEscape(c) ==
    c \in {Ascii["\""], Ascii[BSL], Ascii["/"], Ascii["b"], Ascii["f"], Ascii["n"],
           Ascii["r"], Ascii["t"]}

NamedEscapeCRasLF(c) ==
    CASE c = Ascii["\""] -> Ascii["\""]
      [] c = Ascii[BSL] -> Ascii[BSL]
      [] c = Ascii["/"] -> Ascii["/"]
      [] c = Ascii["b"] -> 8
      [] c = Ascii["f"] -> 12
      [] c = Ascii["n"] -> 10
      [] c = Ascii["r"] -> 10
      [] c = Ascii["t"] -> 9

\* The byte each single-character case of the switch writes.
NamedEscape(c) ==
    CASE c = Ascii["\""] -> Ascii["\""]
      [] c = Ascii[BSL] -> Ascii[BSL]
      [] c = Ascii["/"] -> Ascii["/"]
      [] c = Ascii["b"] -> 8
      [] c = Ascii["f"] -> 12
      [] c = Ascii["n"] -> 10
      [] c = Ascii["r"] -> 13
      [] c = Ascii["t"] -> 9

IsHighSurrogate(r) == r >= \HD800 /\ r <= \HDBFF

IsLowSurrogateOrHigh(r) == r >= \HD800 /\ r <= \HDFFF

IsLowSurrogate(r) == r >= \HDC00 /\ r <= \HDFFF

combinedNoOffset(r, r2) == (r - \HD800) * \H400 + (r2 - \HDC00)

\* combined := 0x10000 + (rune(r)-0xD800)*0x400 + (rune(r2) - 0xDC00)
combined(r, r2) == \H10000 + (r - \HD800) * \H400 + (r2 - \HDC00)

PastEscapeWithoutIncrement(j) == j + 4

\* i += 4 after a \uXXXX escape, and the i++ that ends the loop body.
PastEscape(j) == j + 4 + 1

\* One iteration of jsonUnescape's loop, entered with i < len(s): the
\* cursor and the buffer at the next loop head, or the error returned.
UnescapeIter(str, k, out) ==
    LET fail(e) == [i |-> k, buf |-> out, err |-> e]
        next(n, bytes) == [i |-> n, buf |-> out \o bytes, err |-> NoErr]
        j == k + 1
        c == At(str, j)
    IN  IF At(str, k) # Ascii[BSL] THEN next(k + 1, <<At(str, k)>>)
        ELSE IF k + 1 >= Len(str) THEN fail(ErrIncompleteEscape)
        ELSE CASE IsNamedEscape(c) -> next(j + 1, <<NamedEscape(c)>>)
               [] c = Ascii["u"] ->
                    IF j + 4 >= Len(str) THEN fail(ErrIncompleteUnicodeEscape)
                    ELSE LET hex == Slice(str, j + 1, j + 5)
                             p == parseHexRune(hex)
                             hex2 == Slice(str, j + 7, j + 11)
                             p2 == parseHexRune(hex2)
                         IN  IF ~p.ok THEN fail(ErrInvalidUnicodeEscape(hex))
                             ELSE IF /\ IsHighSurrogate(p.r)
                                     /\ j + 10 < Len(str)
                                     /\ At(str, j + 5) = Ascii[BSL]
                                     /\ At(str, j + 6) = Ascii["u"]
                                     /\ p2.ok
                                     /\ IsLowSurrogate(p2.r)
                             THEN next(j + 11, WriteRune(combined(p.r, p2.r)))
                             ELSE next(PastEscape(j), WriteRune(p.r))
               [] OTHER -> fail(ErrInvalidEscapeChar(c))

RECURSIVE UnescapeLoop(_, _, _)
UnescapeLoop(str, k, out) ==
    IF k >= Len(str) THEN [result |-> out, err |-> NoErr]
    ELSE LET n == UnescapeIter(str, k, out)
         IN  IF n.err # NoErr THEN [result |-> <<>>, err |-> n.err]
             ELSE UnescapeLoop(str, n.i, n.buf)

jsonUnescape(str) == UnescapeLoop(str, 0, <<>>)

(***************************************************************************)
(* The inputs of the codec.                                                *)
(***************************************************************************)
\* Unicode scalar values around every boundary of jsonEscape's cases and of
\* the UTF-8 and UTF-16 encodings.
Scalars ==
    {\H00, \H01, \H07, \H08, \H09, \H0A, \H0B, \H0C, \H0D, \H0E, \H1F, \H20,
     \H22, \H26, \H2F, \H3C, \H3E, \H41, \H5C, \H75, \H7F, \H80, \H7FF, \H800,
     \HD7FF, \HE000, \HFFFF, \H10000, \H1F44B, \H10FFFF}

\* The UTF-8 encoding of a scalar value.
Utf8(v) ==
    IF v < \H80 THEN <<v>>
    ELSE IF v < \H800 THEN <<\HC0 + (v \div 64), \H80 + (v % 64)>>
    ELSE IF v < \H10000
         THEN <<\HE0 + (v \div 4096), \H80 + ((v \div 64) % 64), \H80 + (v % 64)>>
    ELSE <<\HF0 + (v \div 262144), \H80 + ((v \div 4096) % 64),
           \H80 + ((v \div 64) % 64), \H80 + (v % 64)>>

Utf8Text(vs) == Concat([k \in DOMAIN vs |-> Utf8(vs[k])])

\* Texts of at most MaxLen characters, and every control character alone.
Texts == SeqsUpTo(Scalars, MaxLen) \cup {<<c>> : c \in 0 .. 31}

\* Pieces of escaped text: literal units, the named escapes, \u escapes of
\* every kind, surrogate halves and pairs, and malformed escapes.
Tokens ==
    { Str(<<"a">>), Str(<<"u">>), Str(<<"0">>), Str(<<"\"">>), <<\HC3, \HA9>>,
      Str(<<BSL, "\"">>), Str(<<BSL, BSL>>), Str(<<BSL, "/">>), Str(<<BSL, "b">>),
      Str(<<BSL, "f">>), Str(<<BSL, "n">>), Str(<<BSL, "r">>), Str(<<BSL, "t">>),
      Str(<<BSL, "u", "0", "0", "4", "1">>),
      Str(<<BSL, "u", "0", "0", "E", "9">>),
      Str(<<BSL, "u", "6", "5", "e", "5">>),
      Str(<<BSL, "u", "d", "7", "f", "f">>),
      Str(<<BSL, "u", "e", "0", "0", "0">>),
      Str(<<BSL, "u", "d", "8", "3", "d">>),
      Str(<<BSL, "u", "d", "c", "4", "b">>),
      Str(<<BSL, "u", "D", "8", "0", "0">>),
      Str(<<BSL, "u", "D", "F", "F", "F">>),
      Str(<<BSL, "u", "d", "8", "3", "d", BSL, "u", "d", "c", "4", "b">>),
      Str(<<BSL, "u", "D", "8", "0", "0", BSL, "u", "D", "C", "0", "0">>),
      Str(<<BSL, "u", "d", "b", "f", "f", BSL, "u", "d", "f", "f", "f">>),
      Str(<<BSL, "u", "d", "8", "3", "d", BSL, "u", "d", "c", "4">>),
      Str(<<BSL, "u", "d", "8", "3", "d", BSL, "u", "d", "c", "4", "g">>),
      Str(<<BSL>>), Str(<<BSL, "x">>), Str(<<BSL, "U">>), Str(<<BSL>>) \o <<\HC3, \HA9>>,
      Str(<<BSL, "u">>), Str(<<BSL, "u", "0", "0">>), Str(<<BSL, "u", "0", "0", "4">>),
      Str(<<BSL, "u", "z", "z">>), Str(<<BSL, "u", "0", "0", "4", "g">>),
      Str(<<BSL, "u", "X", "X", "X", "X">>),
      Str(<<BSL, "u", "0", "0">>) \o <<\HC3, \HA9>> }

\* Escaped texts of at most MaxTokens tokens.
EscapedInputs == {Concat(ts) : ts \in SeqsUpTo(Tokens, MaxTokens)}

(***************************************************************************)
(* The command line: Config and parseArgs.                                 *)
(***************************************************************************)
exitSuccess == 0
exitError == 1
exitUsageError == 2

\* config := &Config{}
EmptyConfig ==
    [InputFiles |-> <<>>, ReadStdin |-> FALSE, NullDelimited |-> FALSE,
     LineMode |-> FALSE, Unescape |-> FALSE, WrapQuotes |-> FALSE,
     RawOutput |-> FALSE, OutputFile |-> <<>>, ASCIIOnly |-> FALSE,
     HTMLSafe |-> FALSE, StrictUTF8 |-> FALSE, ReplaceUTF8 |-> FALSE,
     ShowHelp |-> FALSE, ShowVersion |-> FALSE, GenerateCompletion |-> <<>>,
     Args |-> <<>>]

\* strings.HasPrefix(str, prefix)
HasPrefix(str, prefix) ==
    Len(str) >= Len(prefix) /\ SubSeq(str, 1, Len(prefix)) = prefix

\* strings.Cut(str, "="): the text before the first '=', the text after it,
\* and whether there is one.
Cut(str) ==
    LET eqs == {k \in DOMAIN str : str[k] = Ascii["="]}
        first == CHOOSE k \in eqs : \A m \in eqs : k <= m
    IN  IF eqs = {}
        THEN [before |-> str, after |-> <<>>, found |-> FALSE]
        ELSE [before |-> SubSeq(str, 1, first - 1),
              after |-> SubSeq(str, first + 1, Len(str)), found |-> TRUE]

\* What parsing one argument leaves: the index of the argument it stands
\* at, the configuration, an error (NoErr for none), and whether "--" ended
\* the parsing.
Parsed(k, cfg) == [i |-> k, cfg |-> cfg, err |-> NoErr, stop |-> FALSE]

ParseFailed(e) == [i |-> 0, cfg |-> EmptyConfig, err |-> e, stop |-> TRUE]

\* A long option that takes a value: --name=value or --name value.
LongValue(args, k, cut, msg) ==
    IF cut.found THEN [i |-> k, value |-> cut.after, err |-> NoErr]
    ELSE IF k + 1 >= Len(args) THEN [i |-> k + 1, value |-> <<>>, err |-> Error(msg, <<>>)]
    ELSE [i |-> k + 1, value |-> At(args, k + 1), err |-> NoErr]

\* The switch over a long option's name; the caller moves to the next
\* argument.
ParseLong(args, k, cfg) ==
    LET cut == Cut(Slice(At(args, k), 2, Len(At(args, k))))
        name == cut.before
        file == LongValue(args, k, cut, "--file requires a value")
        output == LongValue(args, k, cut, "--output requires a value")
        shell == LongValue(args, k, cut,
                           "--completion requires a shell name (bash, zsh, fish)")
    IN  CASE name = Str(<<"h", "e", "l", "p">>) ->
                Parsed(k, [cfg EXCEPT !.ShowHelp = TRUE])
          [] name = Str(<<"v", "e", "r", "s", "i", "o", "n">>) ->
                Parsed(k, [cfg EXCEPT !.ShowVersion = TRUE])
          [] name = Str(<<"u", "n", "e", "s", "c", "a", "p", "e">>) ->
                Parsed(k, [cfg EXCEPT !.Unescape = TRUE])
          [] name = Str(<<"q", "u", "o", "t", "e">>) ->
                Parsed(k, [cfg EXCEPT !.WrapQuotes = TRUE])
          [] name = Str(<<"r", "a", "w">>) ->
                Parsed(k, [cfg EXCEPT !.RawOutput = TRUE])
          [] name = Str(<<"n", "u", "l", "l">>) ->
                Parsed(k, [cfg EXCEPT !.NullDelimited = TRUE])
          [] name = Str(<<"l", "i", "n", "e", "s">>) ->
                Parsed(k, [cfg EXCEPT !.LineMode = TRUE])
          [] name = Str(<<"a", "s", "c", "i", "i">>) ->
                Parsed(k, [cfg EXCEPT !.ASCIIOnly = TRUE])
          [] name = Str(<<"h", "t", "m", "l", "-", "s", "a", "f", "e">>) ->
                Parsed(k, [cfg EXCEPT !.HTMLSafe = TRUE])
          [] name = Str(<<"s", "t", "r", "i", "c", "t">>) ->
                Parsed(k, [cfg EXCEPT !.StrictUTF8 = TRUE])
          [] name = Str(<<"r", "e", "p", "l", "a", "c", "e">>) ->
                Parsed(k, [cfg EXCEPT !.ReplaceUTF8 = TRUE])
          [] name = Str(<<"s", "t", "d", "i", "n">>) ->
                Parsed(k, [cfg EXCEPT !.ReadStdin = TRUE])
          [] name = Str(<<"f", "i", "l", "e">>) ->
                IF file.err # NoErr THEN ParseFailed(file.err)
                ELSE Parsed(file.i, [cfg EXCEPT !.InputFiles = Append(@, file.value)])
          [] name = Str(<<"o", "u", "t", "p", "u", "t">>) ->
                IF output.err # NoErr THEN ParseFailed(output.err)
                ELSE Parsed(output.i, [cfg EXCEPT !.OutputFile = output.value])
          [] name = Str(<<"c", "o", "m", "p", "l", "e", "t", "i", "o", "n">>) ->
                IF shell.err # NoErr THEN ParseFailed(shell.err)
                ELSE Parsed(shell.i, [cfg EXCEPT !.GenerateCompletion = shell.value])
          [] OTHER -> ParseFailed(Error("unknown option: --", name))

\* The loop over the characters of a short-option argument, from arg[j] on.
RECURSIVE ParseShort(_, _, _, _, _)
ParseShort(args, k, arg, j, cfg) ==
    IF j >= Len(arg) THEN Parsed(k, cfg)
    ELSE LET c == At(arg, j)
             flag(next) == ParseShort(args, k, arg, j + 1, next)
         IN  CASE c = Ascii["h"] -> flag([cfg EXCEPT !.ShowHelp = TRUE])
               [] c = Ascii["V"] -> flag([cfg EXCEPT !.ShowVersion = TRUE])
               [] c = Ascii["u"] -> flag([cfg EXCEPT !.Unescape = TRUE])
               [] c = Ascii["q"] -> flag([cfg EXCEPT !.WrapQuotes = TRUE])
               [] c = Ascii["r"] -> flag([cfg EXCEPT !.RawOutput = TRUE])
               [] c = Ascii["0"] -> flag([cfg EXCEPT !.NullDelimited = TRUE])
               [] c = Ascii["l"] -> flag([cfg EXCEPT !.LineMode = TRUE])
               [] c = Ascii["a"] -> flag([cfg EXCEPT !.ASCIIOnly = TRUE])
               [] c = Ascii["s"] -> flag([cfg EXCEPT !.StrictUTF8 = TRUE])
               [] c = Ascii["f"] ->
                    IF j + 1 < Len(arg)
                    THEN Parsed(k, [cfg EXCEPT !.InputFiles =
                                        Append(@, Slice(arg, j + 1, Len(arg)))])
                    ELSE IF k + 1 >= Len(args)
                    THEN ParseFailed(Error("-f requires a value", <<>>))
                    ELSE ParseShort(args, k + 1, arg, j + 1,
                                    [cfg EXCEPT !.InputFiles = Append(@, At(args, k + 1))])
               [] c = Ascii["o"] ->
                    IF j + 1 < Len(arg)
                    THEN Parsed(k, [cfg EXCEPT !.OutputFile = Slice(arg, j + 1, Len(arg))])
                    ELSE IF k + 1 >= Len(args)
                    THEN ParseFailed(Error("-o requires a value", <<>>))
                    ELSE ParseShort(args, k + 1, arg, j + 1,
                                    [cfg EXCEPT !.OutputFile = At(args, k + 1)])
               [] OTHER -> ParseFailed(Error("unknown option: -", WriteRune(c)))

\* One iteration of parseArgs's loop over args.
ParseArg(args, k, cfg) ==
    LET arg == At(args, k)
        dashes == Str(<<"-", "-">>)
    IN  IF arg = dashes
        THEN [i |-> k, err |-> NoErr, stop |-> TRUE,
              cfg |-> [cfg EXCEPT !.Args = @ \o Slice(args, k + 1, Len(args))]]
        ELSE IF HasPrefix(arg, dashes) THEN ParseLong(args, k, cfg)
        ELSE IF HasPrefix(arg, Str(<<"-">>)) /\ Len(arg) > 1
        THEN ParseShort(args, k, arg, 1, cfg)
        ELSE Parsed(k, [cfg EXCEPT !.Args = Append(@, arg)])

\* The checks for conflicting options at the end of parseArgs.
Validate(cfg) ==
    IF cfg.StrictUTF8 /\ cfg.ReplaceUTF8
    THEN [cfg |-> EmptyConfig,
          err |-> Error("--strict and --replace are mutually exclusive", <<>>)]
    ELSE IF cfg.NullDelimited /\ cfg.LineMode
    THEN [cfg |-> EmptyConfig,
          err |-> Error("--null and --lines are mutually exclusive", <<>>)]
    ELSE [cfg |-> cfg, err |-> NoErr]

\* parseArgs's loop from args[k] on, and after the iteration that left step.
RECURSIVE ParseFrom(_, _, _), ParseOn(_, _)
ParseFrom(args, k, cfg) ==
    IF k >= Len(args) THEN Validate(cfg)
    ELSE ParseOn(args, ParseArg(args, k, cfg))

ParseOn(args, step) ==
    IF step.err # NoErr THEN [cfg |-> EmptyConfig, err |-> step.err]
    ELSE IF step.stop THEN Validate(step.cfg)
    ELSE ParseFrom(args, step.i + 1, step.cfg)

parseArgs(args) == ParseFrom(args, 0, EmptyConfig)

(***************************************************************************)
(* Processor: processItem and the three ways of reading a stream.          *)
(***************************************************************************)
\* Whether the bytes at k are a valid UTF-8 encoding.
ValidAt(str, k) == At(str, k) < \H80 \/ DecodeRune(str, k).size > 1

\* utf8.ValidString(str)
RECURSIVE ValidFrom(_, _)
ValidFrom(str, k) ==
    IF k >= Len(str) THEN TRUE
    ELSE ValidAt(str, k) /\ ValidFrom(str, k + DecodeRune(str, k).size)

ValidString(str) == ValidFrom(str, 0)

\* strings.ToValidUTF8(str, "�"): each run of invalid bytes becomes one
\* replacement character.
RECURSIVE ToValidFrom(_, _, _)
ToValidFrom(str, k, inRun) ==
    IF k >= Len(str) THEN <<>>
    ELSE IF ValidAt(str, k)
    THEN Slice(str, k, k + DecodeRune(str, k).size)
            \o ToValidFrom(str, k + DecodeRune(str, k).size, FALSE)
    ELSE (IF inRun THEN <<>> ELSE <<\HEF, \HBF, \HBD>>) \o ToValidFrom(str, k + 1, TRUE)

ToValidUTF8(str) == ToValidFrom(str, 0, FALSE)

\* strings.TrimSuffix(str, suffix) for a one-byte suffix.
TrimSuffix(str, b) ==
    IF Len(str) > 0 /\ str[Len(str)] = b THEN SubSeq(str, 1, Len(str) - 1) ELSE str

\* The conversion processItem applies: the result and the error.
Convert(cfg, str) ==
    IF cfg.Unescape THEN jsonUnescape(str)
    ELSE [result |-> jsonEscape(str, cfg.ASCIIOnly, cfg.HTMLSafe), err |-> NoErr]

QuotedUnclosed(cfg, res) ==
    IF cfg.WrapQuotes THEN <<Ascii["\""]>> \o res ELSE res

\* if p.Config.WrapQuotes { result = `"` + result + `"` }
Quoted(cfg, res) ==
    IF cfg.WrapQuotes THEN <<Ascii["\""]>> \o res \o <<Ascii["\""]>> ELSE res

\* fmt.Fprint or fmt.Fprintln to p.Output.
Printed(cfg, res) == IF cfg.RawOutput THEN res ELSE Append(res, 10)

\* processItem after the conversion: the error it returns, or the bytes it
\* writes to p.Output.
Output(cfg, conv) ==
    IF conv.err # NoErr THEN [err |-> Wrap("unescaping", conv.err), out |-> <<>>]
    ELSE [err |-> NoErr, out |-> Printed(cfg, Quoted(cfg, conv.result))]

\* processItem: the error it returns, or the bytes it writes to p.Output.
processItem(cfg, item) ==
    IF cfg.StrictUTF8 /\ ~ValidString(item)
    THEN [err |-> Error("input contains invalid UTF-8", <<>>), out |-> <<>>]
    ELSE Output(cfg, Convert(cfg, IF cfg.ReplaceUTF8 THEN ToValidUTF8(item) ELSE item))

\* The items of a stream are processed in order up to the first error:
\* the records written and the error.
RECURSIVE ProcessItems(_, _), ProcessRest(_, _, _)
ProcessItems(cfg, items) ==
    IF items = <<>> THEN [outs |-> <<>>, err |-> NoErr]
    ELSE ProcessRest(cfg, processItem(cfg, Head(items)), Tail(items))

Following(out, done) == [outs |-> <<out>> \o done.outs, err |-> done.err]

ProcessRest(cfg, first, items) ==
    IF first.err # NoErr THEN [outs |-> <<>>, err |-> first.err]
    ELSE Following(first.out, ProcessItems(cfg, items))

\* bufio.ScanLines over the whole stream: the lines without their "\n" and
\* without one "\r" before it; a last line without "\n" counts when it is
\* not empty.
RECURSIVE ScanLines(_)
ScanLines(data) ==
    LET nls == {k \in DOMAIN data : data[k] = 10}
        nl == CHOOSE k \in nls : \A m \in nls : k <= m
    IN  IF data = <<>> THEN <<>>
        ELSE IF nls = {} THEN <<TrimSuffix(data, 13)>>
        ELSE <<TrimSuffix(SubSeq(data, 1, nl - 1), 13)>>
                \o ScanLines(SubSeq(data, nl + 1, Len(data)))

RECURSIVE NullRecordsWithEmptyTail(_, _)
NullRecordsWithEmptyTail(data, eof) ==
    LET nuls == {k \in DOMAIN data : data[k] = 0}
        nul == CHOOSE k \in nuls : \A m \in nuls : k <= m
    IN  IF nuls = {} THEN (IF eof THEN <<data>> ELSE <<>>)
        ELSE <<SubSeq(data, 1, nul - 1)>>
                \o NullRecordsWithEmptyTail(SubSeq(data, nul + 1, Len(data)), eof)

\* The ReadString('\x00') loop of processNullDelimited: every terminated
\* record and, when the stream ends at the end of file, what follows the
\* last of them if it is not empty.
RECURSIVE NullRecords(_, _)
NullRecords(data, eof) ==
    LET nuls == {k \in DOMAIN data : data[k] = 0}
        nul == CHOOSE k \in nuls : \A m \in nuls : k <= m
    IN  IF nuls = {} THEN (IF eof /\ data # <<>> THEN <<data>> ELSE <<>>)
        ELSE <<SubSeq(data, 1, nul - 1)>>
                \o NullRecords(SubSeq(data, nul + 1, Len(data)), eof)

\* The items ProcessReader hands to processItem: r.data is what the stream
\* delivers, and r.fails whether a read error ends it in place of the end
\* of file.
ReaderItems(cfg, r) ==
    IF cfg.NullDelimited THEN NullRecords(r.data, ~r.fails)
    ELSE IF cfg.LineMode THEN ScanLines(r.data)
    ELSE IF r.fails THEN <<>>
    ELSE <<TrimSuffix(TrimSuffix(r.data, 10), 13)>>

\* The error of the stream's reads.
ReadFault == Error("is a directory", <<>>)

\* What ProcessReader returns once the items the stream delivered are
\* processed: the error of an item, or else the error of the read.
ReaderResult(cfg, r, done) ==
    IF ~r.fails \/ done.err # NoErr THEN done
    ELSE [outs |-> done.outs,
          err |-> IF cfg.LineMode /\ ~cfg.NullDelimited THEN ReadFault
                  ELSE Wrap("reading input", ReadFault)]

\* ProcessReader: the records written and the error returned.
ProcessReader(cfg, r) == ReaderResult(cfg, r, ProcessItems(cfg, ReaderItems(cfg, r)))

(***************************************************************************)
(* The file system and the standard input the runs meet.                   *)
(***************************************************************************)
\* The regular file "in": three lines, the last of which does not unescape.
InPath == Str(<<"i", "n">>)

InData ==
    Str(<<"\"", "q", "\"">>) \o <<10>> \o Str(<<"b">>) \o <<13, 10>>
        \o Str(<<"c", BSL>>) \o <<10>>

\* The directory "/": it opens, reading it fails, and it cannot be created.
DirPath == Str(<<"/">>)

\* os.Open(path): whether it succeeds, and the stream it gives.
Open(path) ==
    IF path = InPath THEN [ok |-> TRUE, data |-> InData, fails |-> FALSE]
    ELSE IF path = DirPath THEN [ok |-> TRUE, data |-> <<>>, fails |-> TRUE]
    ELSE [ok |-> FALSE, data |-> <<>>, fails |-> FALSE]

\* os.Create(path): whether it succeeds.
CanCreate(path) == path # DirPath

\* ProcessFile
ProcessFile(cfg, path) ==
    IF ~Open(path).ok
    THEN [outs |-> <<>>, err |-> Error("cannot open file", path)]
    ELSE ProcessReader(cfg, Open(path))

\* What standard input may hold.
StdinInputs ==
    { <<>>,
      Str(<<"a">>) \o <<10>>,
      Str(<<"a">>) \o <<10, 10>>,
      Str(<<"a">>) \o <<10>> \o Str(<<"b", BSL>>) \o <<10>> \o Str(<<"c">>),
      Str(<<"a">>) \o <<0, 0>> \o Str(<<"b">>),
      Str(<<"a">>) \o <<0>> \o Str(<<"b">>) \o <<0>>,
      <<\HFF, 13, 10>> }

(***************************************************************************)
(* The codec under its callers: a text is escaped and the result unescaped *)
(* (TestRoundTrip), or an escaped text is unescaped (TestJsonUnescape).    *)
(* jsonUnescape runs one loop iteration per step.                          *)
(***************************************************************************)
NoPrev == [i |-> -1, buf |-> <<>>, iters |-> 0]

\* Standard input before run has looked at it.
NoStdin == [checked |-> FALSE, terminal |-> FALSE, read |-> FALSE, data |-> <<>>]

\* No run of the command is under way.
RunIdle ==
    /\ rpc = "idle"
    /\ argv = <<>>
    /\ config = EmptyConfig
    /\ argIdx = 0
    /\ fileIdx = 0
    /\ hasInput = FALSE
    /\ stdin = NoStdin
    /\ written = <<>>
    /\ count = 0
    /\ served = "none"
    /\ stderr = <<>>
    /\ exitCode = -1

Init ==
    /\ RunIdle
    /\ call \in {"roundtrip", "unescape"}
    /\ IF call = "roundtrip"
       THEN /\ pc = "escape"
            /\ chars \in Texts
            /\ text = Utf8Text(chars)
            /\ asciiOnly \in BOOLEAN
            /\ htmlSafe \in BOOLEAN
            /\ s = <<>>
       ELSE /\ pc = "scan"
            /\ chars = <<>>
            /\ text = <<>>
            /\ asciiOnly = FALSE
            /\ htmlSafe = FALSE
            /\ s \in EscapedInputs
    /\ escaped = <<>>
    /\ i = 0
    /\ buf = <<>>
    /\ err = NoErr
    /\ result = <<>>
    /\ prev = NoPrev

\* escaped := jsonEscape(input, asciiOnly, htmlSafe), then the call of
\* jsonUnescape(escaped) up to its loop head.
Escape ==
    /\ pc = "escape"
    /\ escaped' = jsonEscape(text, asciiOnly, htmlSafe)
    /\ s' = escaped'
    /\ i' = 0
    /\ buf' = <<>>
    /\ pc' = "scan"
    /\ UNCHANGED <<call, chars, text, asciiOnly, htmlSafe, err, result, prev>>
    /\ UNCHANGED runVars

\* One iteration of jsonUnescape's loop.
Scan ==
    /\ pc = "scan"
    /\ i < Len(s)
    /\ LET n == UnescapeIter(s, i, buf)
       IN  /\ prev' = [i |-> i, buf |-> buf, iters |-> prev.iters + 1]
           /\ i' = n.i
           /\ buf' = n.buf
           /\ err' = n.err
           /\ IF n.err # NoErr
              THEN pc' = "done" /\ result' = <<>>
              ELSE pc' = "scan" /\ result' = result
    /\ UNCHANGED <<call, chars, text, asciiOnly, htmlSafe, escaped, s>>
    /\ UNCHANGED runVars

\* The loop's exit: return buf.String(), nil.
Return ==
    /\ pc = "scan"
    /\ i >= Len(s)
    /\ result' = buf
    /\ pc' = "done"
    /\ UNCHANGED <<call, chars, text, asciiOnly, htmlSafe, escaped, s, i, buf, err, prev>>
    /\ UNCHANGED runVars

Next == Escape \/ Scan \/ Return

Spec == Init /\ [][Next]_vars

(***************************************************************************)
(* run: one step for parseArgs, one for what follows it up to the creation *)
(* of the output file, one per input processed, and one for the return.    *)
(***************************************************************************)
\* The arguments the command lines are made of.
ArgPool ==
    { Str(<<"-", "-", "h", "e", "l", "p">>),
      Str(<<"-", "V">>),
      Str(<<"-", "u">>),
      Str(<<"-", "s">>),
      Str(<<"-", "-", "r", "e", "p", "l", "a", "c", "e">>),
      Str(<<"-", "0">>),
      Str(<<"-", "l">>),
      Str(<<"-", "f">>),
      Str(<<"-", "f", "i", "n">>),
      Str(<<"-", "f", "/">>),
      Str(<<"-", "-", "c", "o", "m", "p", "l", "e", "t", "i", "o", "n">>),
      Str(<<"B", "a", "s", "h">>),
      Str(<<"-", "-", "c", "o", "m", "p", "l", "e", "t", "i", "o", "n", "=", "f", "i", "s", "h">>),
      Str(<<"-", "-", "b", "o", "g", "u", "s">>),
      Str(<<"-", "x">>),
      Str(<<"-", "-", "o", "u", "t", "p", "u", "t", "=", "/">>),
      Str(<<"-", "o", "o", "u", "t">>),
      Str(<<"-", "-">>),
      Str(<<"-", "-", "s", "t", "d", "i", "n">>),
      Str(<<"a", BSL>>),
      <<\HFF>> }

ArgLists == SeqsUpTo(ArgPool, MaxArgs)

\* The codec is not called directly.
CodecIdle ==
    /\ pc = "idle"
    /\ call = "none"
    /\ chars = <<>>
    /\ text = <<>>
    /\ asciiOnly = FALSE
    /\ htmlSafe = FALSE
    /\ escaped = <<>>
    /\ s = <<>>
    /\ i = 0
    /\ buf = <<>>
    /\ err = NoErr
    /\ result = <<>>
    /\ prev = NoPrev

RunInit ==
    /\ CodecIdle
    /\ rpc = "parse"
    /\ argv \in ArgLists
    /\ config = EmptyConfig
    /\ argIdx = 0
    /\ fileIdx = 0
    /\ hasInput = FALSE
    /\ stdin = NoStdin
    /\ written = <<>>
    /\ count = 0
    /\ served = "none"
    /\ stderr = <<>>
    /\ exitCode = -1

TryHelp == Error("Try 'jsonescape --help' for more information.", <<>>)

\* return code, with what was printed to stderr.
Exit(code, errors) ==
    /\ exitCode' = code
    /\ stderr' = errors
    /\ rpc' = "exit"

\* strings.ToLower on ASCII.
ToLower(str) ==
    [k \in DOMAIN str |->
        IF str[k] >= Ascii["A"] /\ str[k] <= Ascii["Z"] THEN str[k] + 32 ELSE str[k]]

generateCompletionExitError(shell) ==
    LET name == ToLower(shell)
    IN  IF name = Str(<<"b", "a", "s", "h">>) THEN [served |-> "bash", code |-> exitSuccess]
        ELSE IF name = Str(<<"z", "s", "h">>) THEN [served |-> "zsh", code |-> exitSuccess]
        ELSE IF name = Str(<<"f", "i", "s", "h">>) THEN [served |-> "fish", code |-> exitSuccess]
        ELSE [served |-> "none", code |-> exitError]

\* generateCompletion: the script printed and the exit status.
generateCompletion(shell) ==
    LET name == ToLower(shell)
    IN  IF name = Str(<<"b", "a", "s", "h">>) THEN [served |-> "bash", code |-> exitSuccess]
        ELSE IF name = Str(<<"z", "s", "h">>) THEN [served |-> "zsh", code |-> exitSuccess]
        ELSE IF name = Str(<<"f", "i", "s", "h">>) THEN [served |-> "fish", code |-> exitSuccess]
        ELSE [served |-> "none", code |-> exitUsageError]

\* config, err := parseArgs(args), and the return on an error.
RunParse ==
    /\ rpc = "parse"
    /\ \E parsed \in {parseArgs(argv)} :
           IF parsed.err # NoErr
           THEN /\ Exit(exitUsageError, <<parsed.err, TryHelp>>)
                /\ UNCHANGED config
           ELSE /\ config' = parsed.cfg
                /\ rpc' = "meta"
                /\ UNCHANGED <<stderr, exitCode>>
    /\ UNCHANGED <<argv, argIdx, fileIdx, hasInput, stdin, written, count, served>>
    /\ UNCHANGED codecVars

\* if config.ShowHelp { printHelp(stdout); return exitSuccess }
RunHelp ==
    /\ rpc = "meta"
    /\ config.ShowHelp
    /\ served' = "help"
    /\ Exit(exitSuccess, <<>>)
    /\ UNCHANGED <<argv, config, argIdx, fileIdx, hasInput, stdin, written, count>>
    /\ UNCHANGED codecVars

\* if config.ShowVersion { ...; return exitSuccess }
RunVersion ==
    /\ rpc = "meta"
    /\ ~config.ShowHelp
    /\ config.ShowVersion
    /\ served' = "version"
    /\ Exit(exitSuccess, <<>>)
    /\ UNCHANGED <<argv, config, argIdx, fileIdx, hasInput, stdin, written, count>>
    /\ UNCHANGED codecVars

\* if config.GenerateCompletion != "" { return generateCompletion(...) }
RunCompletion ==
    /\ rpc = "meta"
    /\ ~config.ShowHelp
    /\ ~config.ShowVersion
    /\ config.GenerateCompletion # <<>>
    /\ \E done \in {generateCompletion(config.GenerateCompletion)} :
           /\ served' = done.served
           /\ Exit(done.code,
                   IF done.served = "none"
                   THEN <<Error("unknown shell", config.GenerateCompletion)>>
                   ELSE <<>>)
    /\ UNCHANGED <<argv, config, argIdx, fileIdx, hasInput, stdin, written, count>>
    /\ UNCHANGED codecVars

\* The output writer: stdout, or the file os.Create gives.
RunCreateOutput ==
    /\ rpc = "meta"
    /\ ~config.ShowHelp
    /\ ~config.ShowVersion
    /\ config.GenerateCompletion = <<>>
    /\ IF config.OutputFile # <<>> /\ ~CanCreate(config.OutputFile)
       THEN Exit(exitError, <<Error("cannot create output file", config.OutputFile)>>)
       ELSE rpc' = "input" /\ UNCHANGED <<stderr, exitCode>>
    /\ UNCHANGED <<argv, config, argIdx, fileIdx, hasInput, stdin, written, count, served>>
    /\ UNCHANGED codecVars

\* What one input did: its records are written, and its error ends the run.
Processed(done) ==
    /\ written' = written \o done.outs
    /\ count' = count + Len(done.outs)
    /\ IF done.err # NoErr
       THEN Exit(exitError, <<done.err>>)
       ELSE UNCHANGED <<rpc, stderr, exitCode>>

NextInputFilesFirst(cfg, a, f) ==
    IF f < Len(cfg.InputFiles) THEN "file"
    ELSE IF a < Len(cfg.Args) THEN "arg"
    ELSE "stdin"

\* Which of run's three loops stands next, after a arguments and f files.
NextInput(cfg, a, f) ==
    IF a < Len(cfg.Args) THEN "arg"
    ELSE IF f < Len(cfg.InputFiles) THEN "file"
    ELSE "stdin"

\* One iteration of: for _, arg := range config.Args
RunArg ==
    /\ rpc = "input"
    /\ NextInput(config, argIdx, fileIdx) = "arg"
    /\ hasInput' = TRUE
    /\ argIdx' = argIdx + 1
    /\ \E done \in {ProcessItems(config, <<At(config.Args, argIdx)>>)} : Processed(done)
    /\ UNCHANGED <<argv, config, fileIdx, stdin, served>>
    /\ UNCHANGED codecVars

\* One iteration of: for _, path := range config.InputFiles
RunFile ==
    /\ rpc = "input"
    /\ NextInput(config, argIdx, fileIdx) = "file"
    /\ hasInput' = TRUE
    /\ fileIdx' = fileIdx + 1
    /\ \E done \in {ProcessFile(config, At(config.InputFiles, fileIdx))} : Processed(done)
    /\ UNCHANGED <<argv, config, argIdx, stdin, served>>
    /\ UNCHANGED codecVars

\* if config.ReadStdin || (!hasInput && !isTerminal(stdin)) { ... }:
\* isTerminal is asked only when the rest of the condition needs it.
RunStdin ==
    /\ rpc = "input"
    /\ NextInput(config, argIdx, fileIdx) = "stdin"
    /\ ~stdin.checked
    /\ \E terminal \in IF config.ReadStdin \/ hasInput THEN {FALSE} ELSE BOOLEAN :
          IF config.ReadStdin \/ (~hasInput /\ ~terminal)
          THEN \E data \in StdinInputs :
                \E done \in {ProcessReader(config, [data |-> data, fails |-> FALSE])} :
                  /\ stdin' = [checked |-> TRUE, terminal |-> terminal,
                               read |-> TRUE, data |-> data]
                  /\ Processed(done)
                  /\ hasInput' = (hasInput \/ done.err = NoErr)
          ELSE /\ stdin' = [checked |-> TRUE, terminal |-> terminal,
                            read |-> FALSE, data |-> <<>>]
               /\ UNCHANGED <<hasInput, written, count, rpc, stderr, exitCode>>
    /\ UNCHANGED <<argv, config, argIdx, fileIdx, served>>
    /\ UNCHANGED codecVars

\* if !hasInput { ...; return exitUsageError }; return exitSuccess
RunReturn ==
    /\ rpc = "input"
    /\ stdin.checked
    /\ IF ~hasInput
       THEN Exit(exitUsageError, <<Error("no input provided", <<>>), TryHelp>>)
       ELSE Exit(exitSuccess, <<>>)
    /\ UNCHANGED <<argv, config, argIdx, fileIdx, hasInput, stdin, written, count, served>>
    /\ UNCHANGED codecVars

RunNext ==
    \/ RunParse
    \/ RunHelp
    \/ RunVersion
    \/ RunCompletion
    \/ RunCreateOutput
    \/ RunArg
    \/ RunFile
    \/ RunStdin
    \/ RunReturn

SpecRun == RunInit /\ [][RunNext]_vars

(***************************************************************************)
(* Processor.processItem on its own: one text under the output options of  *)
(* escape mode (-q, -r, --ascii, --html-safe), written to p.Output.        *)
(***************************************************************************)
ItemConfigs ==
    { [EmptyConfig EXCEPT !.WrapQuotes = q, !.RawOutput = r,
                          !.ASCIIOnly = a, !.HTMLSafe = h] :
        q \in BOOLEAN, r \in BOOLEAN, a \in BOOLEAN, h \in BOOLEAN }

ItemInit ==
    /\ pc = "idle"
    /\ call = "none"
    /\ chars \in Texts
    /\ text = Utf8Text(chars)
    /\ asciiOnly = FALSE
    /\ htmlSafe = FALSE
    /\ escaped = <<>>
    /\ s = <<>>
    /\ i = 0
    /\ buf = <<>>
    /\ err = NoErr
    /\ result = <<>>
    /\ prev = NoPrev
    /\ rpc = "item"
    /\ argv = <<>>
    /\ config \in ItemConfigs
    /\ argIdx = 0
    /\ fileIdx = 0
    /\ hasInput = FALSE
    /\ stdin = NoStdin
    /\ written = <<>>
    /\ count = 0
    /\ served = "none"
    /\ stderr = <<>>
    /\ exitCode = -1

\* err := p.processItem(text)
ItemProcess ==
    /\ rpc = "item"
    /\ \E done \in {processItem(config, text)} :
          /\ written' = IF done.err = NoErr THEN Append(written, done.out) ELSE written
          /\ count' = IF done.err = NoErr THEN count + 1 ELSE count
          /\ stderr' = IF done.err = NoErr THEN stderr ELSE <<done.err>>
    /\ rpc' = "processed"
    /\ UNCHANGED <<argv, config, argIdx, fileIdx, hasInput, stdin, served, exitCode>>
    /\ UNCHANGED codecVars

ItemNext == ItemProcess

SpecItem == ItemInit /\ [][ItemNext]_vars

(***************************************************************************)
(* What the properties below are stated with: the escape grammar written   *)
(* out as tables, independently of the operators above.                    *)
(***************************************************************************)
LowerHex == Str(<<"0", "1", "2", "3", "4", "5", "6", "7", "8", "9",
                  "a", "b", "c", "d", "e", "f">>)

\* The six characters \uXXXX of a 16-bit value, in lowercase.
LowerU(v) ==
    <<92, 117, LowerHex[((v \div 4096) % 16) + 1], LowerHex[((v \div 256) % 16) + 1],
      LowerHex[((v \div 16) % 16) + 1], LowerHex[(v % 16) + 1]>>

\* The bytes 0-9, A-F, a-f and the digit each stands for.
HexOf ==
    [b \in (48 .. 57) \cup (65 .. 70) \cup (97 .. 102) |->
        IF b <= 57 THEN b - 48 ELSE IF b <= 70 THEN b - 55 ELSE b - 87]

\* A well-formed \uXXXX occupies the six units from p (0-based) on.
EscapeAt(str, p) ==
    /\ p + 6 <= Len(str)
    /\ str[p + 1] = 92
    /\ str[p + 2] = 117
    /\ \A k \in 3 .. 6 : str[p + k] \in DOMAIN HexOf

EscapeValue(str, p) ==
    HexOf[str[p + 3]] * 4096 + HexOf[str[p + 4]] * 256
        + HexOf[str[p + 5]] * 16 + HexOf[str[p + 6]]

SurrogatePairAt(str, p) ==
    /\ EscapeAt(str, p)
    /\ EscapeValue(str, p) \in \HD800 .. \HDBFF
    /\ EscapeAt(str, p + 6)
    /\ EscapeValue(str, p + 6) \in \HDC00 .. \HDFFF

LoneSurrogateAt(str, p) ==
    /\ EscapeAt(str, p)
    /\ EscapeValue(str, p) \in \HD800 .. \HDFFF
    /\ ~SurrogatePairAt(str, p)

Stepped == prev.i >= 0

Escaped == call = "roundtrip" /\ pc # "escape"

All(q, P(_)) == \A k \in DOMAIN q : P(q[k])

(***************************************************************************)
(* C1. Round-trip law: for every valid UTF-8 text t, jsonUnescape of       *)
(* jsonEscape(t, false, false) succeeds and returns exactly t.             *)
(***************************************************************************)
C1_RoundTrip ==
    (call = "roundtrip" /\ ~asciiOnly /\ ~htmlSafe /\ pc = "done")
        => (err = NoErr /\ result = text)

C1_Witness ==
    /\ call = "roundtrip" /\ ~asciiOnly /\ ~htmlSafe /\ pc = "done"
    /\ chars = <<\H22, \H1F44B>>
    /\ escaped = <<92, 34, \HF0, \H9F, \H91, \H8B>>
    /\ result = <<34, \HF0, \H9F, \H91, \H8B>>

(***************************************************************************)
(* C2. ASCII folding: with asciiOnly set, a scalar value v > 0x7F becomes  *)
(* one lowercase \uXXXX escape when v <= 0xFFFF and otherwise the escapes  *)
(* of high = 0xD800 + ((v-0x10000)>>10) and low = 0xDC00 +                 *)
(* ((v-0x10000)&0x3FF) in that order; the output holds only ASCII, and     *)
(* jsonUnescape decodes it back to v.                                      *)
(***************************************************************************)
Folded(v) ==
    IF v <= \HFFFF THEN LowerU(v)
    ELSE LowerU(\HD800 + ((v - \H10000) \div 1024))
            \o LowerU(\HDC00 + ((v - \H10000) % 1024))

C2_AsciiFolding ==
    (Escaped /\ asciiOnly) =>
        /\ All(escaped, LAMBDA b : b < 128)
        /\ All(chars, LAMBDA v : v > \H7F) =>
              /\ escaped = Concat([k \in DOMAIN chars |-> Folded(chars[k])])
              /\ pc = "done" => (err = NoErr /\ result = text)

C2_Witness ==
    /\ Escaped /\ asciiOnly /\ pc = "done"
    /\ chars = <<\H1F44B, \H7FF>>
    /\ escaped = Str(<<BSL, "u", "d", "8", "3", "d", BSL, "u", "d", "c", "4", "b",
                       BSL, "u", "0", "7", "f", "f">>)
    /\ result = <<\HF0, \H9F, \H91, \H8B, \HDF, \HBF>>

(***************************************************************************)
(* C3. Surrogate composition: at a \uXXXX escape of a high surrogate that  *)
(* is immediately followed by a \uXXXX escape of a low surrogate, one      *)
(* iteration of jsonUnescape emits the one scalar value 0x10000 +          *)
(* (high-0xD800)*0x400 + (low-0xDC00) and moves the cursor by exactly 12   *)
(* units, also when the pair ends the input.                               *)
(***************************************************************************)
C3_SurrogateComposition ==
    (Stepped /\ SurrogatePairAt(s, prev.i)) =>
        /\ err = NoErr
        /\ i = prev.i + 12
        /\ buf = prev.buf \o Utf8(\H10000
                                    + (EscapeValue(s, prev.i) - \HD800) * \H400
                                    + (EscapeValue(s, prev.i + 6) - \HDC00))

C3_Witness ==
    /\ call = "unescape" /\ pc = "done" /\ err = NoErr
    /\ s = Str(<<BSL, "u", "d", "8", "3", "d", BSL, "u", "d", "c", "4", "b", "a">>)
    /\ result = <<\HF0, \H9F, \H91, \H8B, 97>>

(***************************************************************************)
(* C4. Unpaired surrogates.  As claimed: at a \uXXXX escape whose value v  *)
(* is in 0xD800-0xDFFF and that is not a high surrogate followed by a low  *)
(* surrogate escape, jsonUnescape does not fail, emits the code point v    *)
(* itself, and moves past that one 6-unit escape.                          *)
(***************************************************************************)
\* The code point v itself, in the three-byte form of UTF-8.
ThreeBytes(v) == <<\HE0 + (v \div 4096), \H80 + ((v \div 64) % 64), \H80 + (v % 64)>>

C4_EmitsSurrogateItself ==
    (Stepped /\ LoneSurrogateAt(s, prev.i)) =>
        /\ err = NoErr
        /\ i = prev.i + 6
        /\ buf = prev.buf \o ThreeBytes(EscapeValue(s, prev.i))

(***************************************************************************)
(* C4 as amended: at such an escape jsonUnescape does not fail, emits the  *)
(* replacement character U+FFFD (EF BF BD) in place of v, and moves past   *)
(* that one 6-unit escape, so that what follows is decoded on its own.     *)
(***************************************************************************)
C4_EmitsReplacement ==
    (Stepped /\ LoneSurrogateAt(s, prev.i)) =>
        /\ err = NoErr
        /\ i = prev.i + 6
        /\ buf = prev.buf \o <<\HEF, \HBF, \HBD>>

C4_Witness ==
    /\ call = "unescape" /\ pc = "done" /\ err = NoErr
    /\ s = Str(<<BSL, "u", "d", "8", "3", "d", BSL, "u", "0", "0", "4", "1">>)
    /\ result = <<\HEF, \HBF, \HBD, 65>>

(***************************************************************************)
(* C5. Error classification: an iteration of jsonUnescape fails exactly at *)
(* a malformed escape, the call fails exactly when the scan reaches one,   *)
(* and the error is IncompleteEscape when the backslash is the last unit,  *)
(* IncompleteUnicodeEscape when fewer than 4 units follow \u (whatever     *)
(* they are), InvalidUnicodeEscape when the 4 units after \u are not all   *)
(* hexadecimal digits, and InvalidEscapeChar when the unit after the       *)
(* backslash is none of " \ / b f n r t u.                                 *)
(***************************************************************************)
EscapeUnits == {34, 92, 47, 98, 102, 110, 114, 116, 117}

\* The error of the escape at loop head p, "" for none.
ExpectedError(str, p) ==
    IF str[p + 1] # 92 THEN ""
    ELSE IF p + 1 = Len(str) THEN ErrIncompleteEscape.msg
    ELSE IF str[p + 2] \notin EscapeUnits THEN "invalid escape sequence"
    ELSE IF str[p + 2] # 117 THEN ""
    ELSE IF Len(str) - (p + 2) < 4 THEN ErrIncompleteUnicodeEscape.msg
    ELSE IF \E k \in 3 .. 6 : str[p + k] \notin DOMAIN HexOf
         THEN "invalid unicode escape"
    ELSE ""

C5_ErrorClassification ==
    /\ Stepped => err.msg = ExpectedError(s, prev.i)
    /\ ~Stepped => err = NoErr
    /\ err # NoErr => (pc = "done" /\ result = <<>>)

C5_Witness ==
    /\ pc = "done"
    /\ s = Str(<<BSL, "n", BSL, "u", "z", "z">>)
    /\ prev.i = 2
    /\ err = ErrIncompleteUnicodeEscape

(***************************************************************************)
(* C6. HTML safety: with htmlSafe set the output of jsonEscape holds no    *)
(* literal '<', '>' or '&'; with htmlSafe unset every '<', '>' and '&' of  *)
(* the input stays as it is, for either value of asciiOnly.                *)
(***************************************************************************)
IsHtml(b) == b \in {60, 62, 38}

C6_HtmlSafety ==
    Escaped =>
        IF htmlSafe
        THEN All(escaped, LAMBDA b : ~IsHtml(b))
        ELSE SelectSeq(escaped, IsHtml) = SelectSeq(text, IsHtml)

C6_Witness ==
    /\ Escaped /\ htmlSafe /\ pc = "done"
    /\ chars = <<60, 38>>
    /\ escaped = Str(<<BSL, "u", "0", "0", "3", "c", BSL, "u", "0", "0", "2", "6">>)

(***************************************************************************)
(* C7. Control characters: under every combination of asciiOnly and        *)
(* htmlSafe, jsonEscape renders \b \t \n \f \r as their two-character      *)
(* escapes and every other value in 0x00-0x1F as \u00XX with lowercase     *)
(* digits, and its output never holds a raw character below U+0020.        *)
(***************************************************************************)
ControlEscape(c) ==
    CASE c = 8 -> <<92, 98>>
      [] c = 9 -> <<92, 116>>
      [] c = 10 -> <<92, 110>>
      [] c = 12 -> <<92, 102>>
      [] c = 13 -> <<92, 114>>
      [] OTHER -> <<92, 117, 48, 48, LowerHex[(c \div 16) + 1], LowerHex[(c % 16) + 1]>>

C7_ControlEscaping ==
    Escaped =>
        /\ All(escaped, LAMBDA b : b >= 32)
        /\ All(chars, LAMBDA v : v < 32) =>
              escaped = Concat([k \in DOMAIN chars |-> ControlEscape(chars[k])])

C7_Witness ==
    /\ Escaped /\ asciiOnly /\ htmlSafe
    /\ chars = <<\H1F, \H0A>>
    /\ escaped = Str(<<BSL, "u", "0", "0", "1", "f", BSL, "n">>)

(***************************************************************************)
(* C8. Named escapes: each of \" \\ \/ \b \f \n \r \t decodes to its one   *)
(* character and moves the cursor by exactly 2 units; every unit that is   *)
(* not a backslash is copied as it is and moves the cursor by 1.           *)
(***************************************************************************)
Named ==
    (34 :> 34) @@ (92 :> 92) @@ (47 :> 47) @@ (98 :> 8) @@ (102 :> 12)
        @@ (110 :> 10) @@ (114 :> 13) @@ (116 :> 9)

C8_NamedEscapes ==
    Stepped =>
        LET p == prev.i
        IN  /\ s[p + 1] # 92 =>
                  (err = NoErr /\ i = p + 1 /\ buf = Append(prev.buf, s[p + 1]))
            /\ (s[p + 1] = 92 /\ p + 2 <= Len(s) /\ s[p + 2] \in DOMAIN Named) =>
                  (err = NoErr /\ i = p + 2 /\ buf = Append(prev.buf, Named[s[p + 2]]))

C8_Witness ==
    /\ call = "unescape" /\ pc = "done" /\ err = NoErr
    /\ s = Str(<<BSL, "r", BSL, "/">>)
    /\ result = <<13, 47>>

(***************************************************************************)
(* What the properties of run are stated with: the messages of stderr by   *)
(* kind, the option spellings, and the input units of a command line in    *)
(* the order it names them.                                                *)
(***************************************************************************)
UsageMessages ==
    { "unknown option: --", "unknown option: -", "--file requires a value",
      "--output requires a value",
      "--completion requires a shell name (bash, zsh, fish)",
      "-f requires a value", "-o requires a value",
      "--strict and --replace are mutually exclusive",
      "--null and --lines are mutually exclusive",
      "unknown shell", "no input provided" }

ProcessingMessages ==
    { "unescaping", "input contains invalid UTF-8", "cannot open file",
      "reading input", "is a directory", "cannot create output file" }

OptStrict == Str(<<"-", "s">>)

OptReplace == Str(<<"-", "-", "r", "e", "p", "l", "a", "c", "e">>)

OptNull == Str(<<"-", "0">>)

OptLines == Str(<<"-", "l">>)

OptFile == Str(<<"-", "f">>)

OptCompletion == Str(<<"-", "-", "c", "o", "m", "p", "l", "e", "t", "i", "o", "n">>)

OptBogus == Str(<<"-", "-", "b", "o", "g", "u", "s">>)

\* The options that take no value and end nothing.
Switches ==
    { OptStrict, OptReplace, OptNull, OptLines, Str(<<"-", "u">>),
      Str(<<"-", "-", "s", "t", "d", "i", "n">>) }

Given(opt) == \E k \in DOMAIN argv : argv[k] = opt

OnlySwitches(n) == \A k \in 1 .. n : argv[k] \in Switches

\* A shell name the completion knows, in any letter case.
KnownShell(shell) ==
    \E known \in {Str(<<"b", "a", "s", "h">>), Str(<<"z", "s", "h">>),
                  Str(<<"f", "i", "s", "h">>)} :
        /\ Len(shell) = Len(known)
        /\ \A k \in DOMAIN known : shell[k] \in {known[k], known[k] - 32}

\* The run got as far as its inputs: the arguments parsed, nothing else was
\* asked for, and the output could be opened.
ReachedInputs ==
    /\ rpc \in {"input", "exit"}
    /\ stderr = <<>> \/ stderr[1].msg \in ProcessingMessages \/ stderr[1].msg = "no input provided"
    /\ stderr = <<>> \/ stderr[1].msg # "cannot create output file"
    /\ served = "none"

\* An input unit is an item to process, or the failure of a file to open or
\* to be read.
Item(item) == [item |-> item, fault |-> FALSE]

Fault == [item |-> <<>>, fault |-> TRUE]

FileUnits(path) ==
    IF ~Open(path).ok THEN <<Fault>>
    ELSE [k \in DOMAIN ReaderItems(config, Open(path)) |->
              Item(ReaderItems(config, Open(path))[k])]
            \o (IF Open(path).fails THEN <<Fault>> ELSE <<>>)

RECURSIVE FilesUnits(_)
FilesUnits(paths) ==
    IF paths = <<>> THEN <<>> ELSE FileUnits(Head(paths)) \o FilesUnits(Tail(paths))

StdinUnits ==
    IF ~stdin.read THEN <<>>
    ELSE [k \in DOMAIN ReaderItems(config, [data |-> stdin.data, fails |-> FALSE]) |->
              Item(ReaderItems(config, [data |-> stdin.data, fails |-> FALSE])[k])]

\* Positional arguments left to right, then the files in the order given,
\* then standard input.
Units ==
    [k \in DOMAIN config.Args |-> Item(config.Args[k])]
        \o FilesUnits(config.InputFiles) \o StdinUnits

Fails(unit) == unit.fault \/ processItem(config, unit.item).err # NoErr

AnyFails == \E k \in DOMAIN Units : Fails(Units[k])

(***************************************************************************)
(* C9. Exit status of run: 0 when the arguments parse and every input unit *)
(* is processed without error, or help, the version or a known shell's     *)
(* completion is served; 1 when an item fails during processing (an        *)
(* unescape error, invalid UTF-8 under --strict, an unreadable input file, *)
(* an output file that cannot be created); 2 for every usage error:        *)
(* unknown option, an option missing its value, --strict with --replace,   *)
(* --null with --lines, an unknown completion shell, or no input at all.   *)
(***************************************************************************)
C9_ExitStatus ==
    rpc = "exit" =>
        /\ exitCode \in {exitSuccess, exitError, exitUsageError}
        /\ exitCode = exitSuccess <=> stderr = <<>>
        /\ exitCode = exitError <=>
              stderr # <<>> /\ stderr[1].msg \in ProcessingMessages
        /\ exitCode = exitUsageError <=>
              stderr # <<>> /\ stderr[1].msg \in UsageMessages
        /\ exitCode = exitSuccess =>
              \/ served \in {"help", "version", "bash", "zsh", "fish"}
              \/ /\ served = "none"
                 /\ hasInput
                 /\ count = Len(Units)
                 /\ ~AnyFails
        /\ ReachedInputs /\ AnyFails => exitCode = exitError
        /\ config.OutputFile # <<>> /\ ~CanCreate(config.OutputFile)
              /\ ~config.ShowHelp /\ ~config.ShowVersion
              /\ config.GenerateCompletion = <<>>
              => exitCode = exitError
        /\ config.ShowHelp \/ config.ShowVersion => exitCode = exitSuccess
        /\ config.GenerateCompletion # <<>> /\ ~config.ShowHelp /\ ~config.ShowVersion
              => exitCode = IF KnownShell(config.GenerateCompletion)
                            THEN exitSuccess ELSE exitUsageError
        /\ argv # <<>> /\ argv[1] = OptBogus => exitCode = exitUsageError
        /\ argv # <<>> /\ OnlySwitches(Len(argv) - 1)
              /\ argv[Len(argv)] \in {OptFile, OptCompletion}
              => exitCode = exitUsageError
        /\ OnlySwitches(Len(argv)) /\ Given(OptStrict) /\ Given(OptReplace)
              => exitCode = exitUsageError
        /\ OnlySwitches(Len(argv)) /\ Given(OptNull) /\ Given(OptLines)
              => exitCode = exitUsageError
        /\ ReachedInputs /\ Units = <<>> /\ ~stdin.read /\ ~hasInput
              => exitCode = exitUsageError
        /\ stderr # <<>> /\ stderr[1].msg = "no input provided"
              => /\ config.Args = <<>> /\ config.InputFiles = <<>>
                 /\ ~config.ReadStdin /\ stdin.terminal

\* A shell the completion does not know was asked for.
C9_Witness ==
    /\ rpc = "exit"
    /\ config.GenerateCompletion # <<>>
    /\ ~KnownShell(config.GenerateCompletion)
    /\ stderr # <<>> /\ stderr[1].msg = "unknown shell"
    /\ exitCode = exitUsageError

(***************************************************************************)
(* C10. Ordering and abort in run: input units are processed strictly in   *)
(* the order positional arguments (left to right), then input files (in    *)
(* the order given), then stdin, and each successful unit appends exactly  *)
(* one output record in that order; the first unit that fails aborts the   *)
(* whole run with exit 1, writes nothing for itself, and no later unit is  *)
(* processed or written, while the records already written for earlier     *)
(* units remain.                                                           *)
(***************************************************************************)
C10_OrderingAndAbort ==
    ReachedInputs =>
        /\ Len(written) = count
        /\ count <= Len(Units)
        /\ \A k \in 1 .. count :
              /\ ~Fails(Units[k])
              /\ written[k] = processItem(config, Units[k].item).out
        /\ stdin.checked =>
              /\ argIdx = Len(config.Args)
              /\ fileIdx = Len(config.InputFiles)
              /\ stdin.read <=>
                    \/ config.ReadStdin
                    \/ /\ config.Args = <<>> /\ config.InputFiles = <<>>
                       /\ ~stdin.terminal
        /\ rpc = "input" => ~AnyFails \/ ~stdin.checked
        /\ rpc = "input" /\ ~stdin.checked =>
              \A k \in 1 .. Len(Units) : Fails(Units[k]) => k > count
        /\ rpc = "exit" =>
              IF AnyFails
              THEN /\ exitCode = exitError
                   /\ count < Len(Units)
                   /\ Fails(Units[count + 1])
              ELSE /\ exitCode # exitError
                   /\ count = Len(Units)

\* A unit is written, the next one fails, and one more is left.
C10_Witness ==
    /\ rpc = "exit"
    /\ ReachedInputs
    /\ exitCode = exitError
    /\ count >= 1
    /\ count + 1 < Len(Units)
    /\ Len(written) = count

(***************************************************************************)
(* What C11 is stated with: a stream without its trailing newlines, a      *)
(* newline being a line feed with or without a carriage return before it.  *)
(***************************************************************************)
RECURSIVE StripNewlines(_)
StripNewlines(data) ==
    IF data # <<>> /\ data[Len(data)] = 10
    THEN StripNewlines(
            IF Len(data) >= 2 /\ data[Len(data) - 1] = 13
            THEN SubSeq(data, 1, Len(data) - 2)
            ELSE SubSeq(data, 1, Len(data) - 1))
    ELSE data

\* Standard input was read in the whole-input mode.
StdinWhole == stdin.read /\ ~config.NullDelimited /\ ~config.LineMode

(***************************************************************************)
(* C11. Trailing newlines are stripped from stdin input: in the default    *)
(* whole-input mode (neither --lines nor --null) the item handed to the    *)
(* codec is the stdin content with its trailing newlines removed, so the   *)
(* processed item never ends with a newline character, and the record      *)
(* written is the one of that item.                                        *)
(***************************************************************************)
C11_TrailingNewlinesStripped ==
    StdinWhole =>
        /\ ReaderItems(config, [data |-> stdin.data, fails |-> FALSE])
              = <<StripNewlines(stdin.data)>>
        /\ \A k \in DOMAIN ReaderItems(config, [data |-> stdin.data, fails |-> FALSE]) :
              LET item == ReaderItems(config, [data |-> stdin.data, fails |-> FALSE])[k]
              IN  item = <<>> \/ item[Len(item)] # 10
        /\ stderr = <<>> =>
              /\ count >= 1
              /\ written[count] = processItem(config, StripNewlines(stdin.data)).out

(***************************************************************************)
(* What C12 is stated with: the NUL bytes of standard input by position.   *)
(***************************************************************************)
StdinNuls == {k \in DOMAIN stdin.data : stdin.data[k] = 0}

\* The position of the j-th NUL, and 0 for j = 0.
NulAt(j) ==
    IF j = 0 THEN 0
    ELSE CHOOSE k \in StdinNuls : Cardinality({m \in StdinNuls : m <= k}) = j

\* What follows the last NUL.
StdinTail == SubSeq(stdin.data, NulAt(Cardinality(StdinNuls)) + 1, Len(stdin.data))

StdinItems == ReaderItems(config, [data |-> stdin.data, fails |-> FALSE])

(***************************************************************************)
(* C12. Null-delimited splitting (-0/--null): the stream is split at NUL   *)
(* bytes; every NUL-terminated record, an empty one included, is processed *)
(* as exactly one item in stream order, a non-empty unterminated final     *)
(* segment is processed as one further item, an empty final segment yields *)
(* no item, and no item passed to the codec contains a NUL byte.           *)
(***************************************************************************)
C12_NullDelimitedSplitting ==
    stdin.read /\ config.NullDelimited =>
        /\ Len(StdinItems) =
              Cardinality(StdinNuls) + (IF StdinTail = <<>> THEN 0 ELSE 1)
        /\ \A j \in 1 .. Cardinality(StdinNuls) :
              StdinItems[j] = SubSeq(stdin.data, NulAt(j - 1) + 1, NulAt(j) - 1)
        /\ StdinTail # <<>> => StdinItems[Len(StdinItems)] = StdinTail
        /\ \A j \in DOMAIN StdinItems : \A k \in DOMAIN StdinItems[j] : StdinItems[j][k] # 0
        /\ stderr = <<>> =>
              /\ count >= Len(StdinItems)
              /\ \A j \in DOMAIN StdinItems :
                    written[count - Len(StdinItems) + j]
                        = processItem(config, StdinItems[j]).out

\* "a", an empty record and an unterminated "b" make three items.
C12_Witness ==
    /\ rpc = "exit" /\ exitCode = exitSuccess
    /\ config.NullDelimited /\ stdin.read
    /\ stdin.data = Str(<<"a">>) \o <<0, 0>> \o Str(<<"b">>)
    /\ written = <<Str(<<"a">>) \o <<10>>, <<10>>, Str(<<"b">>) \o <<10>>>>

(***************************************************************************)
(* What C13 is stated with: the body of a JSON string literal, read from   *)
(* position k on.                                                          *)
(***************************************************************************)
AnyHex == {Ascii[c] : c \in {"0", "1", "2", "3", "4", "5", "6", "7", "8", "9",
                             "a", "b", "c", "d", "e", "f",
                             "A", "B", "C", "D", "E", "F"}}

SimpleEscapes == {Ascii[c] : c \in {"\"", BSL, "b", "f", "n", "r", "t"}}

RECURSIVE WellFormedFrom(_, _)
WellFormedFrom(body, k) ==
    IF k > Len(body) THEN TRUE
    ELSE IF body[k] < 32 \/ body[k] = Ascii["\""] THEN FALSE
    ELSE IF body[k] # Ascii[BSL] THEN WellFormedFrom(body, k + 1)
    ELSE IF k + 1 <= Len(body) /\ body[k + 1] \in SimpleEscapes
    THEN WellFormedFrom(body, k + 2)
    ELSE /\ k + 5 <= Len(body)
         /\ body[k + 1] = Ascii["u"]
         /\ \A m \in k + 2 .. k + 5 : body[m] \in AnyHex
         /\ WellFormedFrom(body, k + 6)

\* A quote, a well-formed body, a quote, and then end.
JsonStringLiteral(out, end) ==
    /\ Len(out) >= 2 + Len(end)
    /\ out[1] = Ascii["\""]
    /\ out[Len(out) - Len(end)] = Ascii["\""]
    /\ SubSeq(out, Len(out) - Len(end) + 1, Len(out)) = end
    /\ WellFormedFrom(SubSeq(out, 2, Len(out) - Len(end) - 1), 1)

(***************************************************************************)
(* C13. Quote wrapping yields an insertable JSON string: in escape mode    *)
(* with -q and valid UTF-8 input, the output of an item is a quote,        *)
(* jsonEscape(item) and a quote (followed by a newline unless -r), and for *)
(* every combination of --ascii and --html-safe it is a well-formed JSON   *)
(* string literal: between the quotes there is no raw character below      *)
(* U+0020, and every quote and backslash is part of a recognized escape.   *)
(***************************************************************************)
C13_QuoteWrapping ==
    rpc = "processed" /\ config.WrapQuotes /\ ~config.Unescape =>
        /\ stderr = <<>>
        /\ Len(written) = 1
        /\ written[1] =
              <<Ascii["\""]>> \o jsonEscape(text, config.ASCIIOnly, config.HTMLSafe)
                  \o <<Ascii["\""]>> \o (IF config.RawOutput THEN <<>> ELSE <<10>>)
        /\ JsonStringLiteral(written[1], IF config.RawOutput THEN <<>> ELSE <<10>>)

\* A quote and a line feed are wrapped under -q and -r.
C13_Witness ==
    /\ rpc = "processed"
    /\ config.WrapQuotes /\ config.RawOutput
    /\ chars = <<\H22, \H0A>>
    /\ written = <<Str(<<"\"", BSL, "\"", BSL, "n", "\"">>)>>

(***************************************************************************)
(* What C14 is stated with: the character that follows the backslash the   *)
(* last iteration stood at, as the bytes of its encoding.                  *)
(***************************************************************************)
EscapedCharacter == Slice(s, prev.i + 1, prev.i + 1 + DecodeRune(s, prev.i + 1).size)

(***************************************************************************)
(* C14. InvalidEscapeChar names the offending character: whenever a        *)
(* backslash is followed by a character c outside the recognized escape    *)
(* set, a non-ASCII (multi-byte encoded) character included, the error of  *)
(* jsonUnescape identifies exactly that character c.                       *)
(***************************************************************************)
C14_NamesOffendingCharacter ==
    err.msg = "invalid escape sequence" => err.arg = EscapedCharacter

(***************************************************************************)
(* C15. Cursor safety and termination of jsonUnescape: at each loop head   *)
(* 0 <= i <= len(s); an iteration is entered inside s and reads nothing    *)
(* past its end (where the units of an escape are missing it returns an    *)
(* error); each iteration either returns an error or increases i by 1, 2,  *)
(* 6 or 12; hence at most len(s) iterations are entered, and the call ends *)
(* with a result or an error.                                              *)
(***************************************************************************)
C15_CursorSafety ==
    pc \in {"scan", "done"} =>
        /\ 0 <= i /\ i <= Len(s)
        /\ prev.iters <= Len(s)
        /\ Stepped =>
              /\ 0 <= prev.i /\ prev.i < Len(s)
              /\ err = NoErr =>
                    /\ i - prev.i \in {1, 2, 6, 12}
                    /\ prev.iters <= i
                    /\ i - prev.i > 1 => s[prev.i + 1] = 92
                    /\ i - prev.i = 12 => s[prev.i + 7] = 92
              /\ err = ErrIncompleteEscape => prev.i + 1 = Len(s)
              /\ err = ErrIncompleteUnicodeEscape =>
                    /\ prev.i + 1 < Len(s)
                    /\ prev.i + 6 > Len(s)
              /\ err.msg \in {"invalid escape sequence", "invalid unicode escape"} =>
                    prev.i + 1 < Len(s)
        /\ pc = "done" =>
              \/ err # NoErr /\ result = <<>>
              \/ err = NoErr /\ i = Len(s) /\ result = buf

\* A surrogate pair and one more unit: two iterations, of 12 and of 1.
C15_Witness ==
    /\ pc = "done" /\ err = NoErr
    /\ s = Str(<<BSL, "u", "d", "8", "3", "d", BSL, "u", "d", "c", "4", "b", "a">>)
    /\ prev.i = 12 /\ i = 13 /\ prev.iters = 2

(***************************************************************************)
(* C16. Round trip under every flag combination: for every valid UTF-8     *)
(* text t and every asciiOnly and htmlSafe, jsonUnescape of                *)
(* jsonEscape(t, asciiOnly, htmlSafe) succeeds and returns exactly t.      *)
(***************************************************************************)
C16_RoundTripAllFlags ==
    call = "roundtrip" =>
        /\ pc # "escape" => (escaped = jsonEscape(text, asciiOnly, htmlSafe) /\ s = escaped)
        /\ pc = "scan" => err = NoErr
        /\ pc = "done" => (err = NoErr /\ result = text)

\* '<' and U+1F44B come back from their escapes under both flags.
C16_Witness ==
    /\ call = "roundtrip" /\ asciiOnly /\ htmlSafe /\ pc = "done"
    /\ chars = <<\H3C, \H1F44B>>
    /\ escaped = Str(<<BSL, "u", "0", "0", "3", "c",
                       BSL, "u", "d", "8", "3", "d", BSL, "u", "d", "c", "4", "b">>)
    /\ result = <<\H3C, \HF0, \H9F, \H91, \H8B>>

====
